---- MODULE Spec2Model ----
(***************************************************************************)
(* Three standalone smoke-test executables of coral-machine-docker:        *)
(*   src/test-project/main.cpp                   dependency-check printer  *)
(*   src/gpu_validation/tests/palabos_minimal.cpp lattice-Boltzmann test   *)
(*   src/gpu_validation/tests/stdpar_test.cpp     parallel-algorithms test *)
(* The executables do not interact: a behaviour runs one of them (prog).   *)
(***************************************************************************)
EXTENDS Integers, Sequences, FiniteSets, Bags, TLC

VARIABLES
    prog,      \* which executable this behaviour runs
    \* ---- dependency-check printer (two runs side by side) ----
    penv,      \* penv[r][d]: is dependency d really present in run r's environment
    ppc,       \* ppc[r]: number of output statements run r has executed
    pout,      \* pout[r]: the lines run r has written to standard output
    pexit,     \* pexit[r]: exit status of run r
    \* ---- lattice-Boltzmann test ----
    lpc,       \* statement main is at
    li,        \* the loop counter i
    lattice,   \* the lattice objects constructed so far (none or one)
    calls,     \* the library calls made so far, in order
    faulted,   \* has a library call raised a fault
    lexit,     \* exit status
    \* ---- parallel-algorithms test ----
    spc,       \* statement main is at
    fault,     \* the injected fault of the parallel facility ("none": it works)
    data,      \* the vector, run-length encoded: <<[len, val], ...>>
    tn,        \* number of chunks the transform's range is split into (0: not yet)
    tcur,      \* tcur[k]: how much of chunk k is written (0 none, 1 first half, 2 all)
    rn,        \* number of chunks the reduction's range is split into (0: not yet)
    rest,      \* chunks no worker has summed yet
    pool,      \* bag of partial results [val: float sum, exact: sum without rounding]
    rounded,   \* has some float addition of the reduction been inexact
    sum,       \* the local float sum ("unset" before std::reduce returns)
    sexit      \* exit status

pvars == <<penv, ppc, pout, pexit>>
lvars == <<lpc, li, lattice, calls, faulted, lexit>>
svars == <<spc, fault, data, tn, tcur, rn, rest, pool, rounded, sum, sexit>>
vars == <<prog, pvars, lvars, svars>>

Programs == {"printer", "lattice", "stdpar"}

\* Exit statuses are integers: main's return value, or one of these two.
NotExited == 0 - 1    \* the process is still running
Aborted == 0 - 6      \* killed by SIGABRT (std::terminate), as waitpid reports it

(***************************************************************************)
(* Dependency-check printer: src/test-project/main.cpp                     *)
(***************************************************************************)
Runs == {"runA", "runB"}
Deps == {"palabos", "geometry-central", "cuda", "mpi"}

\* The text of the seven output statements, in program order (the leading
\* pictograph of each line is left out).
Lines == <<
    "CoralMachine Dependency Test",
    "Palabos library available for linking",
    "Geometry Central library available for linking",
    "CUDA toolkit available",
    "C++20 compilation successful",
    "Basic dependency test passed!",
    "Note: MPI and full Palabos headers need container-specific setup" >>

\* The dependency a line speaks about ("none" for the lines naming none).
LineDep == <<"none", "palabos", "geometry-central", "cuda", "none", "none", "mpi">>

PrinterInit ==
    /\ penv \in IF prog = "printer" THEN [Runs -> [Deps -> BOOLEAN]]
                                     ELSE {[r \in Runs |-> [d \in Deps |-> TRUE]]}
    /\ ppc = [r \in Runs |-> 0]
    /\ pout = [r \in Runs |-> << >>]
    /\ pexit = [r \in Runs |-> NotExited]

\* Variant that writes a line only when the dependency it names is present.
PrintsVerified(r, k) == LineDep[k] = "none" \/ penv[r][LineDep[k]]

\* Does run r write line k: every statement is an unconditional std::cout <<.
Prints(r, k) == TRUE

\* std::cout << Lines[k] << std::endl;
PrintLine(r) ==
    /\ prog = "printer"
    /\ pexit[r] = NotExited
    /\ ppc[r] < Len(Lines)
    /\ ppc' = [ppc EXCEPT ![r] = @ + 1]
    /\ pout' = [pout EXCEPT ![r] =
                  IF Prints(r, ppc[r] + 1) THEN Append(@, Lines[ppc[r] + 1]) ELSE @]
    /\ UNCHANGED <<prog, penv, pexit, lvars, svars>>

\* Exit code that reports a missing dependency.
PrinterExitCodeVerified(r) == IF \A d \in Deps : penv[r][d] THEN 0 ELSE 1

\* The value main returns: the literal 0.
PrinterExitCode(r) == 0

\* return 0;
PrinterReturn(r) ==
    /\ prog = "printer"
    /\ pexit[r] = NotExited
    /\ ppc[r] = Len(Lines)
    /\ pexit' = [pexit EXCEPT ![r] = PrinterExitCode(r)]
    /\ UNCHANGED <<prog, penv, ppc, pout, lvars, svars>>

PrinterNext == \E r \in Runs : PrintLine(r) \/ PrinterReturn(r)

(***************************************************************************)
(* Lattice-Boltzmann test: src/gpu_validation/tests/palabos_minimal.cpp    *)
(***************************************************************************)
nx == 100
ny == 100
nz == 100
iterations == 100
omega == 1

LatticeInit ==
    /\ lpc = "plbInit"
    /\ li = 0
    /\ lattice = << >>
    /\ calls = << >>
    /\ faulted = FALSE
    /\ lexit = NotExited

\* A handler around the calls that swallows the fault and returns 0.
FaultSwallowed(call) ==
    /\ calls' = Append(calls, call)
    /\ faulted' = TRUE
    /\ lpc' = "done"
    /\ lexit' = 0
    /\ UNCHANGED <<li, lattice>>

\* A library call that raises: nothing in main catches it, so the process is
\* terminated abnormally at the call.
Fault(call) ==
    /\ calls' = Append(calls, call)
    /\ faulted' = TRUE
    /\ lpc' = "aborted"
    /\ lexit' = Aborted
    /\ UNCHANGED <<li, lattice>>

\* plbInit(&argc, &argv);
PlbInit ==
    /\ prog = "lattice" /\ lpc = "plbInit"
    /\ \/ /\ calls' = Append(calls, "plbInit")
          /\ lpc' = "construct"
          /\ UNCHANGED <<li, lattice, faulted, lexit>>
       \/ Fault("plbInit")
    /\ UNCHANGED <<prog, pvars, svars>>

\* Construction followed at once by the loop, the warm-up left out.
ConstructNoWarmup ==
    /\ prog = "lattice" /\ lpc = "construct"
    /\ \/ /\ calls' = Append(calls, "construct")
          /\ lattice' = <<[nx |-> nx, ny |-> ny, nz |-> nz,
                          dynamics |-> "AcceleratedBGK", omega |-> omega]>>
          /\ lpc' = "loop"
          /\ UNCHANGED <<li, faulted, lexit>>
       \/ Fault("construct")
    /\ UNCHANGED <<prog, pvars, svars>>

\* MultiBlockLattice3D<double, D3Q19Descriptor> lattice(nx, ny, nz,
\*     new AcceleratedBGKdynamics<double, D3Q19Descriptor>(omega));
Construct ==
    /\ prog = "lattice" /\ lpc = "construct"
    /\ \/ /\ calls' = Append(calls, "construct")
          /\ lattice' = <<[nx |-> nx, ny |-> ny, nz |-> nz,
                          dynamics |-> "AcceleratedBGK", omega |-> omega]>>
          /\ lpc' = "initialize"
          /\ UNCHANGED <<li, faulted, lexit>>
       \/ Fault("construct")
    /\ UNCHANGED <<prog, pvars, svars>>

\* lattice.initialize();   then the for statement's init, int i = 0
Initialize ==
    /\ prog = "lattice" /\ lpc = "initialize"
    /\ \/ /\ calls' = Append(calls, "initialize")
          /\ li' = 0
          /\ lpc' = "loop"
          /\ UNCHANGED <<lattice, faulted, lexit>>
       \/ Fault("initialize")
    /\ UNCHANGED <<prog, pvars, svars>>

\* Loop condition written with <= (one iteration too many).
LoopCondInclusive(i) == i <= iterations

\* i < iterations
LoopCond(i) == i < iterations

\* One pass of the loop body: lattice.collideAndStream(); ++i
CollideAndStream ==
    /\ prog = "lattice" /\ lpc = "loop"
    /\ LoopCond(li)
    /\ \/ /\ calls' = Append(calls, "collideAndStream")
          /\ li' = li + 1
          /\ UNCHANGED <<lpc, lattice, faulted, lexit>>
       \/ Fault("collideAndStream")
    /\ UNCHANGED <<prog, pvars, svars>>

\* The loop condition fails: return 0;
LatticeReturn ==
    /\ prog = "lattice" /\ lpc = "loop"
    /\ ~LoopCond(li)
    /\ lpc' = "done"
    /\ lexit' = 0
    /\ UNCHANGED <<prog, pvars, svars, li, lattice, calls, faulted>>

LatticeNext == PlbInit \/ Construct \/ Initialize \/ CollideAndStream \/ LatticeReturn

(***************************************************************************)
(* Parallel-algorithms test: src/gpu_validation/tests/stdpar_test.cpp      *)
(*                                                                         *)
(* Every value the program computes is an integer-valued float, so a float *)
(* is modelled by the integer it equals; an operation computes the exact   *)
(* result and rounds it to the float format (round to nearest, ties to     *)
(* even), as IEEE-754 single precision does.                               *)
(***************************************************************************)
kSize == 100000000
FltMantDig == 24      \* significand bits of float
InitValue == 1        \* 1.0f
Factor == 2           \* 2.0f
ReduceInit == 0       \* 0.0f

Min(a, b) == IF a <= b THEN a ELSE b

RECURSIVE Pow2(_)
Pow2(n) == IF n = 0 THEN 1 ELSE 2 * Pow2(n - 1)

\* The spacing of the floats around x >= 0: the least power of two u with
\* x < u * 2^FltMantDig.
RECURSIVE Ulp(_)
Ulp(x) == IF x < Pow2(FltMantDig) THEN 1 ELSE 2 * Ulp(x \div 2)

RoundNearestEven(x) ==
    LET u == Ulp(x)
        q == x \div u
        r == x % u
    IN  IF 2 * r < u THEN q * u
        ELSE IF 2 * r > u THEN (q + 1) * u
        ELSE IF q % 2 = 0 THEN q * u ELSE (q + 1) * u

\* The float nearest to the integer x.
RoundFloat(x) == IF x < 0 THEN 0 - RoundNearestEven(0 - x) ELSE RoundNearestEven(x)

\* Is the integer x a float.
Representable(x) == RoundFloat(x) = x

\* float + float and float * float
FAdd(a, b) == RoundFloat(a + b)
FMul(a, b) == RoundFloat(a * b)

\* The largest power of two dividing x > 0.
RECURSIVE LowBit(_)
LowBit(x) == IF x % 2 = 1 THEN 1 ELSE 2 * LowBit(x \div 2)

\* acc after n successive float additions acc = acc + v (acc >= 0, v >= 0):
\* the left-to-right accumulation of a run of n equal elements. While acc and
\* v are multiples of the spacing at the running sum the additions are exact
\* and are taken in one stride; after that they are taken one by one, until
\* the sum stops changing (every later addition then leaves it unchanged).
RECURSIVE AddRep(_, _, _)
AddRep(acc, v, n) ==
    IF n = 0 \/ v = 0 THEN acc
    ELSE LET g == IF acc = 0 THEN LowBit(v) ELSE Min(LowBit(acc), LowBit(v))
             top == IF g >= 64 THEN Pow2(30) ELSE g * Pow2(FltMantDig)
             k == IF top > acc THEN Min(n, (top - acc) \div v) ELSE 0
         IN  IF k > 0 THEN AddRep(acc + k * v, v, n - k)
             ELSE IF FAdd(acc, v) = acc THEN acc
             ELSE AddRep(FAdd(acc, v), v, n - 1)

(***************************************************************************)
(* The vector. data is the run-length encoding of the kSize floats:        *)
(* <<[len |-> 3, val |-> 2], [len |-> 1, val |-> 1]>> is 2, 2, 2, 1.       *)
(* Positions count from 0 and a range is [lo, hi).                         *)
(***************************************************************************)
MaxChunks == 6        \* a range is split into at most this many chunks

Faults == {"none", "transformSkipsLast", "transformSkipsAll",
           "transformWritesZero", "reduceGarbage"}
GarbageSums == {0 - 2, 0, 2}

Max(a, b) == IF a >= b THEN a ELSE b

\* Drop the empty runs and merge neighbours of equal value.
RECURSIVE Normalize(_)
Normalize(buf) ==
    IF buf = << >> THEN << >>
    ELSE LET h == Head(buf)
             t == Normalize(Tail(buf))
         IN  IF h.len = 0 THEN t
             ELSE IF t # << >> /\ Head(t).val = h.val
                  THEN <<[len |-> h.len + Head(t).len, val |-> h.val]>> \o Tail(t)
                  ELSE <<h>> \o t

\* Chunk k of n covers [ChunkLo(n, k), ChunkHi(n, k)).
ChunkLo(n, k) == ((k - 1) * kSize) \div n

\* A chunk that ends one element late (its last element is also the next
\* chunk's first).
ChunkHiInclusive(n, k) == Min(kSize, ((k * kSize) \div n) + 1)

ChunkHi(n, k) == (k * kSize) \div n

\* A chunk length that leaves out the chunk's last element.
ChunkLenShort(n, k) == ChunkHi(n, k) - ChunkLo(n, k) - 1

ChunkLen(n, k) == ChunkHi(n, k) - ChunkLo(n, k)

ChunkMid(n, k) == ChunkLo(n, k) + (ChunkLen(n, k) \div 2)

\* [](float x) { return x * 2.0f; }
UnaryOp(x) == FMul(x, Factor)

\* What the transform leaves in an element that held x: the lambda's result,
\* unless the injected fault loses or spoils the write.
Stored(x) ==
    CASE fault = "transformSkipsAll" -> x
      [] fault = "transformWritesZero" -> 0
      [] OTHER -> UnaryOp(x)

\* Where the worker of chunk k stops writing: at the chunk's end, unless the
\* injected fault makes the transform miss the very last element.
WriteEnd(n, k) ==
    IF fault = "transformSkipsLast" /\ k = n THEN ChunkHi(n, k) - 1 ELSE ChunkHi(n, k)

\* buf after a worker has written the positions [lo, hi).
RECURSIVE WriteRange(_, _, _)
WriteRange(buf, lo, hi) ==
    IF buf = << >> THEN << >>
    ELSE LET h == Head(buf)
             a == Min(Max(lo, 0), h.len)
             b == Max(a, Min(hi, h.len))
         IN  << [len |-> a, val |-> h.val],
                [len |-> b - a, val |-> Stored(h.val)],
                [len |-> h.len - b, val |-> h.val] >>
             \o WriteRange(Tail(buf), lo - h.len, hi - h.len)

\* The element at position i.
RECURSIVE ElementAt(_, _)
ElementAt(buf, i) ==
    IF i < Head(buf).len THEN Head(buf).val ELSE ElementAt(Tail(buf), i - Head(buf).len)

\* acc after adding the elements at [lo, hi) to it one by one, left to right.
RECURSIVE RangeFold(_, _, _, _)
RangeFold(acc, buf, lo, hi) ==
    IF buf = << >> \/ hi <= 0 THEN acc
    ELSE LET h == Head(buf)
             a == Min(Max(lo, 0), h.len)
             b == Max(a, Min(hi, h.len))
         IN  RangeFold(AddRep(acc, h.val, b - a), Tail(buf), lo - h.len, hi - h.len)

\* The sum of the elements at [lo, hi) without any rounding.
RECURSIVE ExactRange(_, _, _)
ExactRange(buf, lo, hi) ==
    IF buf = << >> \/ hi <= 0 THEN 0
    ELSE LET h == Head(buf)
             a == Min(Max(lo, 0), h.len)
             b == Max(a, Min(hi, h.len))
         IN  (b - a) * h.val + ExactRange(Tail(buf), lo - h.len, hi - h.len)

StdparInit ==
    /\ spc = "alloc"
    /\ fault \in IF prog = "stdpar" THEN Faults ELSE {"none"}
    /\ data = << >>
    /\ tn = 0
    /\ tcur = << >>
    /\ rn = 0
    /\ rest = {}
    /\ pool = EmptyBag
    /\ rounded = FALSE
    /\ sum = "unset"
    /\ sexit = NotExited

\* std::vector<float> data(kSize, 1.0f);
Alloc ==
    /\ prog = "stdpar" /\ spc = "alloc"
    /\ data' = <<[len |-> kSize, val |-> InitValue]>>
    /\ spc' = "transform"
    /\ UNCHANGED <<prog, pvars, lvars, fault, tn, tcur, rn, rest, pool, rounded, sum, sexit>>

\* std::transform(std::execution::par, ...): the range is split among workers.
TransformFork ==
    /\ prog = "stdpar" /\ spc = "transform" /\ tn = 0
    /\ \E n \in 1..MaxChunks :
          /\ tn' = n
          /\ tcur' = [k \in 1..n |-> 0]
    /\ UNCHANGED <<prog, pvars, lvars, spc, fault, data, rn, rest, pool, rounded, sum, sexit>>

\* The worker of chunk k writes the next elements of its chunk (its first
\* half, then its second half), each as the lambda of the element itself.
TransformWrite(k) ==
    /\ prog = "stdpar" /\ spc = "transform" /\ tn > 0
    /\ tcur[k] < 2
    /\ LET lo == IF tcur[k] = 0 THEN ChunkLo(tn, k) ELSE ChunkMid(tn, k)
           hi == IF tcur[k] = 0 THEN ChunkMid(tn, k) ELSE WriteEnd(tn, k)
       IN  data' = Normalize(WriteRange(data, lo, hi))
    /\ tcur' = [tcur EXCEPT ![k] = @ + 1]
    /\ UNCHANGED <<prog, pvars, lvars, spc, fault, tn, rn, rest, pool, rounded, sum, sexit>>

\* std::transform returns once every worker is done; the workers are gone.
TransformJoin ==
    /\ prog = "stdpar" /\ spc = "transform" /\ tn > 0
    /\ \A k \in 1..tn : tcur[k] = 2
    /\ spc' = "reduce"
    /\ tn' = 0
    /\ tcur' = << >>
    /\ UNCHANGED <<prog, pvars, lvars, fault, data, rn, rest, pool, rounded, sum, sexit>>

\* std::reduce(std::execution::par, ..., 0.0f): the operands of the
\* generalized sum are the initial value and the elements.
ReduceFork ==
    /\ prog = "stdpar" /\ spc = "reduce" /\ rn = 0
    /\ \E n \in 1..MaxChunks :
          /\ rn' = n
          /\ rest' = 1..n
    /\ pool' = SetToBag({[val |-> ReduceInit, exact |-> 0]})
    /\ UNCHANGED <<prog, pvars, lvars, spc, fault, data, tn, tcur, rounded, sum, sexit>>

\* A worker sums chunk c from its first element on into a new partial result.
ReduceChunk(c) ==
    /\ prog = "stdpar" /\ spc = "reduce" /\ c \in rest
    /\ LET lo == ChunkLo(rn, c)
           v == RangeFold(ElementAt(data, lo), data, lo + 1, lo + ChunkLen(rn, c))
           e == ExactRange(data, lo, lo + ChunkLen(rn, c))
       IN  /\ pool' = pool (+) SetToBag({[val |-> v, exact |-> e]})
           /\ rounded' = (rounded \/ v # e)
    /\ rest' = rest \ {c}
    /\ UNCHANGED <<prog, pvars, lvars, spc, fault, data, tn, tcur, rn, sum, sexit>>

\* A worker goes on with chunk c, adding its elements to the partial result p.
ReduceContinue(p, c) ==
    /\ prog = "stdpar" /\ spc = "reduce" /\ c \in rest
    /\ BagIn(p, pool)
    /\ LET lo == ChunkLo(rn, c)
           v == RangeFold(p.val, data, lo, lo + ChunkLen(rn, c))
           e == ExactRange(data, lo, lo + ChunkLen(rn, c))
       IN  /\ pool' = (pool (-) SetToBag({p})) (+) SetToBag({[val |-> v, exact |-> p.exact + e]})
           /\ rounded' = (rounded \/ v # p.val + e)
    /\ rest' = rest \ {c}
    /\ UNCHANGED <<prog, pvars, lvars, spc, fault, data, tn, tcur, rn, sum, sexit>>

\* Combining that keeps one operand and loses the other.
BinaryOpFirst(a, b) == a

\* std::plus<>: a + b
BinaryOp(a, b) == FAdd(a, b)

\* Two partial results are combined into one.
ReduceCombine(p, q) ==
    /\ prog = "stdpar" /\ spc = "reduce" /\ rn > 0
    /\ BagIn(p, pool) /\ BagIn(q, pool)
    /\ p = q => CopiesIn(p, pool) >= 2
    /\ pool' = ((pool (-) SetToBag({p})) (-) SetToBag({q}))
                 (+) SetToBag({[val |-> BinaryOp(p.val, q.val), exact |-> p.exact + q.exact]})
    /\ rounded' = (rounded \/ ~Representable(p.val + q.val))
    /\ UNCHANGED <<prog, pvars, lvars, spc, fault, data, tn, tcur, rn, rest, sum, sexit>>

\* std::reduce returns the one value left; float sum = ...
ReduceJoin ==
    /\ prog = "stdpar" /\ spc = "reduce" /\ rn > 0
    /\ rest = {}
    /\ BagCardinality(pool) = 1
    /\ \E p \in BagToSet(pool) :
          sum' \in IF fault = "reduceGarbage" THEN GarbageSums ELSE {p.val}
    /\ spc' = "return"
    /\ UNCHANGED <<prog, pvars, lvars, fault, data, tn, tcur, rn, rest, pool, rounded, sexit>>

\* Exit code that accepts a sum of zero.
ExitCodeNonNegative(s) == IF s >= 0 THEN 0 ELSE 1

\* Exit code with the two branches of the conditional swapped.
ExitCodeSwapped(s) == IF s > 0 THEN 1 ELSE 0

\* sum > 0.f ? 0 : 1
ExitCode(s) == IF s > 0 THEN 0 ELSE 1

\* return sum > 0.f ? 0 : 1;
StdparReturn ==
    /\ prog = "stdpar" /\ spc = "return"
    /\ sexit' = ExitCode(sum)
    /\ spc' = "done"
    /\ UNCHANGED <<prog, pvars, lvars, fault, data, tn, tcur, rn, rest, pool, rounded, sum>>

StdparNext ==
    \/ Alloc
    \/ TransformFork
    \/ \E k \in 1..tn : TransformWrite(k)
    \/ TransformJoin
    \/ ReduceFork
    \/ \E c \in rest : ReduceChunk(c)
    \/ \E p \in BagToSet(pool), c \in rest : ReduceContinue(p, c)
    \/ \E p, q \in BagToSet(pool) : ReduceCombine(p, q)
    \/ ReduceJoin
    \/ StdparReturn

(***************************************************************************)
(* Specifications                                                          *)
(***************************************************************************)
Init ==
    /\ prog \in Programs
    /\ PrinterInit
    /\ LatticeInit
    /\ StdparInit

Next == PrinterNext \/ LatticeNext \/ StdparNext

\* Any one of the three executables.
Spec == Init /\ [][Next]_vars

\* One executable at a time.
PrinterStart == Init /\ prog = "printer"
LatticeStart == Init /\ prog = "lattice"
StdparStart == Init /\ prog = "stdpar"
PrinterSpec == PrinterStart /\ [][PrinterNext]_vars
LatticeSpec == LatticeStart /\ [][LatticeNext]_vars
StdparSpec == StdparStart /\ [][StdparNext]_vars

\* main runs to its end: the process is scheduled until it exits.
LatticeFairSpec == LatticeSpec /\ WF_vars(LatticeNext)

(***************************************************************************)
(* Dependency-check printer: properties                                    *)
(***************************************************************************)
Exited(r) == pexit[r] # NotExited

\* C8: a run of the printer always ends with exit code 0 (a run that has not
\* exited can take its next step, and the exit code is 0), and its output is
\* the seven fixed lines, each exactly once, in the fixed order (before the
\* exit it is the prefix of them written so far).
C8_OutputFixedExitZero ==
    \A r \in Runs :
        /\ Exited(r) => pexit[r] = 0 /\ pout[r] = Lines
        /\ ~Exited(r) => ENABLED (PrintLine(r) \/ PrinterReturn(r))
        /\ pout[r] = SubSeq(Lines, 1, ppc[r])
        /\ \A j, k \in 1..Len(Lines) : j # k => Lines[j] # Lines[k]

\* A run has exited in an environment in which no dependency is present.
C8_Witness ==
    \E r \in Runs : Exited(r) /\ \A d \in Deps : ~penv[r][d]

Steps == Cardinality({k \in 1..Len(calls) : calls[k] = "collideAndStream"})

\* C6: with no library call faulting, main terminates with exit code 0 after
\* exactly `iterations` calls of collideAndStream: some state is faulted or
\* such an exit, the loop counter stays within 0..iterations, and an exit
\* with code 0 has made exactly `iterations` calls, none after the exit.
C6_TerminatesAfterHundredSteps ==
    /\ <>(faulted \/ (lpc = "done" /\ lexit = 0 /\ Steps = iterations))
    /\ [](li \in 0..iterations /\ (~faulted => Steps = li))
    /\ [](lpc = "done" => lexit = 0 /\ Steps = iterations /\ li = iterations)
    /\ [][lpc = "done" => calls' = calls]_vars

\* main has returned without any fault.
C6_Witness == lpc = "done" /\ ~faulted /\ Steps = iterations /\ lexit = 0

\* C7: a fault of a library call is fatal and unhandled: once a call has
\* faulted the process is terminated abnormally, it makes no later library
\* call, and exit code 0 is never returned.
C7_FaultIsFatal ==
    /\ [](faulted => lpc = "aborted" /\ lexit = Aborted)
    /\ [][faulted => calls' = calls /\ lexit' # 0]_vars
    /\ [][faulted' /\ ~faulted => lexit' = Aborted /\ Len(calls') = Len(calls) + 1]_vars

\* A collideAndStream call in the middle of the loop has faulted.
C7_Witness == faulted /\ Steps > 2 /\ Steps < iterations /\ lexit = Aborted

\* C10: the library calls are made in a fixed order: plbInit first, then the
\* construction of the lattice (with the BGK dynamics), then initialize, then
\* only collideAndStream; so each of the first three is made at most once
\* and none of them after a collideAndStream.
C10_CallOrder ==
    /\ \A k \in 1..Len(calls) :
          calls[k] = CASE k = 1 -> "plbInit"
                       [] k = 2 -> "construct"
                       [] k = 3 -> "initialize"
                       [] OTHER -> "collideAndStream"
    /\ lpc \in {"initialize", "loop", "done"} =>
          /\ Len(calls) >= 2
          /\ lattice = <<[nx |-> nx, ny |-> ny, nz |-> nz,
                         dynamics |-> "AcceleratedBGK", omega |-> omega]>>
    /\ lpc \in {"plbInit", "construct"} => lattice = << >>

\* Several steps have been made after the warm-up, none faulting.
C10_Witness == ~faulted /\ Steps > 1 /\ Len(calls) = Steps + 3

(***************************************************************************)
(* Parallel-algorithms test: properties                                    *)
(***************************************************************************)
\* The sum the elements have when each is 2.0: 200,000,000.
ExpectedSum == Factor * InitValue * kSize

\* The value at which adding 2.0 to a float sum no longer changes it:
\* 2^25 = 33,554,432.
StagnationSum == Factor * Pow2(FltMantDig)

\* s is within one percent of the expected sum.
WithinTolerance(s) ==
    /\ s - ExpectedSum <= ExpectedSum \div 100
    /\ ExpectedSum - s <= ExpectedSum \div 100

\* The vector with every element doubled exactly once.
AllDoubled == <<[len |-> kSize, val |-> Factor * InitValue]>>

Nominal == fault = "none"

C2_EveryFaultDetected ==
    spc = "done" /\ ~Nominal /\ (data # AllDoubled \/ sum # ExpectedSum) => sexit = 1

\* C2 as amended: an injected fault is detected by exit code 1 exactly when
\* it makes the reduced sum zero or negative: a transform that writes zeros
\* is detected; a transform that writes nothing or misses an element is not
\* (the sum stays positive and main returns 0).
C2_FaultDetectedIffNotPositive ==
    spc = "done" /\ ~Nominal =>
        /\ sexit = 1 <=> sum <= 0
        /\ fault = "transformWritesZero" => sum = 0 /\ sexit = 1
        /\ fault \in {"transformSkipsAll", "transformSkipsLast"} =>
              data # AllDoubled /\ sum > 0 /\ sexit = 0

\* A fault has made the sum zero and main has returned 1.
C2_Witness == spc = "done" /\ fault = "transformWritesZero" /\ sexit = 1

\* C3: the exit code is a function of the reduced sum only: 0 if and only if
\* sum > 0, and 1 otherwise; no other exit code is produced.
C3_ExitCodeFromSum ==
    /\ spc = "done" => /\ sexit \in {0, 1}
                       /\ sexit = 0 <=> sum > 0
                       /\ sexit = 1 <=> sum <= 0
    /\ spc # "done" => sexit = NotExited

\* main has returned 1 for a negative sum.
C3_Witness == spc = "done" /\ sum < 0 /\ sexit = 1

\* The elements a worker has written of chunk k of n at stage c of its pass.
WrittenLen(n, k, c) ==
    CASE c = 0 -> 0
      [] c = 1 -> ChunkMid(n, k) - ChunkLo(n, k)
      [] OTHER -> ChunkLen(n, k)

\* The vector in which exactly the written elements of the chunks k..tn are
\* doubled once and the others hold their initial value.
RECURSIVE Layout(_)
Layout(k) ==
    IF k > tn THEN << >>
    ELSE << [len |-> WrittenLen(tn, k, tcur[k]), val |-> Factor * InitValue],
            [len |-> ChunkLen(tn, k) - WrittenLen(tn, k, tcur[k]), val |-> InitValue] >>
         \o Layout(k + 1)

\* C4: in the transform each element's result depends on that element only:
\* for every split into chunks and every interleaving of the workers'
\* writes, an element is twice its initial value once its worker has written
\* it and its initial value before, the chunks cover every element exactly
\* once, and when the transform completes every element is exactly doubled.
C4_EachElementDoubledOnce ==
    Nominal =>
        /\ spc = "transform" /\ tn > 0 =>
              /\ data = Normalize(Layout(1))
              /\ ChunkLo(tn, 1) = 0 /\ ChunkHi(tn, tn) = kSize
              /\ \A k \in 1..(tn - 1) : ChunkHi(tn, k) = ChunkLo(tn, k + 1)
        /\ spc \in {"reduce", "return", "done"} => data = AllDoubled

\* The transform has completed.
C4_Witness == Nominal /\ spc = "reduce" /\ rn = 0 /\ data = AllDoubled

\* The sum without rounding of the operands not yet combined: the partial
\* results of the pool and the elements of the chunks not yet summed.
RECURSIVE ExactOf(_)
ExactOf(parts) ==
    IF parts = {} THEN 0
    ELSE LET p == CHOOSE x \in parts : TRUE
         IN  p.exact * CopiesIn(p, pool) + ExactOf(parts \ {p})

RECURSIVE ExactRest(_)
ExactRest(cs) ==
    IF cs = {} THEN 0
    ELSE LET c == CHOOSE x \in cs : TRUE
         IN  ExactRange(data, ChunkLo(rn, c), ChunkHi(rn, c)) + ExactRest(cs \ {c})

====
